---------------------------- MODULE Spec2Model ----------------------------
(***************************************************************************)
(* wsym: grafting a symbol table onto an ELF image.                        *)
(*                                                                         *)
(* The image is a sequence of bytes.  A field of a ctypes structure is a   *)
(* "word": the little-endian sequence of the bytes of its value, as long   *)
(* as the field is wide, so that a 32 or 64 bit value never has to fit a   *)
(* TLC integer and a store into a field truncates as ctypes does.  Python  *)
(* integers that are lengths, offsets and indices are TLC integers.        *)
(***************************************************************************)
EXTENDS Integers, Sequences, FiniteSets, TLC

(***************************************************************************)
(* Bounds of the model.                                                    *)
(***************************************************************************)
\* the longest program-header table of an input image
MaxPhdrs == 2
\* the longest section-header table of an input image of the byte-level model
MaxShdrs == 3
\* the longest symbol list handed to add_symbols
MaxSyms == 2
\* an offset at or above MaxOffset is past the end of every buffer of the model
MaxOffset == 16777216
\* how far below 65535 the long section-header tables start
WideSpan == 4
\* the longest file handed to FlatParser, in lines
MaxLines == 2
\* how many times add_symbols is applied to its own output
MaxRounds == 2

(***************************************************************************)
(* Constants of elf.py.                                                    *)
(***************************************************************************)
ELFCLASS32 == 1
ELFCLASS64 == 2
ELFDATA2LSB == 1
ELFDATA2MSB == 2
PT_LOAD == 1
PT_NOTE == 4
PF_X == 1
PF_W == 2
PF_R == 4
SHT_PROGBITS == 1
SHT_SYMTAB == 2
SHT_STRTAB == 3
SHT_RELA == 4
SHT_NOBITS == 8
SHF_WRITE == 1
SHF_ALLOC == 2
SHF_EXECINSTR == 4
SHF_INFO_LINK == 64

(***************************************************************************)
(* Words.                                                                  *)
(***************************************************************************)
\* a function over 1..n or over field names, with every value computed once
Seq1(s) == SubSeq(s, 1, Len(s))
Rec1(f) == f @@ << >>

Zeros(n) == Seq1([i \in 1..n |-> 0])

Reverse(s) == Seq1([i \in 1..Len(s) |-> s[Len(s) + 1 - i]])

\* the byte of rank i (1 = least significant) of word w
ByteAt(w, i) == IF i <= Len(w) THEN w[i] ELSE 0

\* a Python integer 0 <= i < 2^31 as a word
IntWord(i) == << i % 256, (i \div 256) % 256, (i \div 65536) % 256, (i \div 16777216) % 256 >>

\* a store into a ctypes integer field of n bytes keeps the n low bytes
CStore(w, n) == Seq1([i \in 1..n |-> ByteAt(w, i)])

\* a word used as an offset or a count: its value, or MaxOffset when larger
WordInt(w) ==
    IF \E i \in 4..Len(w) : w[i] # 0 THEN MaxOffset
    ELSE ByteAt(w, 1) + 256 * ByteAt(w, 2) + 65536 * ByteAt(w, 3)

\* the bit of value 2^k (k < 8) of a word
BitSet(w, k) == (ByteAt(w, 1) \div (2 ^ k)) % 2 = 1

RECURSIVE AddFrom(_, _, _, _, _)
AddFrom(a, b, i, n, carry) ==
    IF i > n THEN << carry >>
    ELSE LET s == ByteAt(a, i) + ByteAt(b, i) + carry
         IN  << s % 256 >> \o AddFrom(a, b, i + 1, n, s \div 256)

Max(x, y) == IF x >= y THEN x ELSE y

\* Python's a + b on non-negative integers of any size
WAdd(a, b) == AddFrom(a, b, 1, Max(Len(a), Len(b)), 0)

RECURSIVE LessFrom(_, _, _)
LessFrom(a, b, i) ==
    IF i = 0 THEN FALSE
    ELSE IF ByteAt(a, i) # ByteAt(b, i) THEN ByteAt(a, i) < ByteAt(b, i)
    ELSE LessFrom(a, b, i - 1)

\* Python's a < b and a <= b
WLess(a, b) == LessFrom(a, b, Max(Len(a), Len(b)))
WLeq(a, b) == ~WLess(b, a)
WEq(a, b) == ~WLess(a, b) /\ ~WLess(b, a)

(***************************************************************************)
(* The structure model (elf.py).  A structure type is its field list and   *)
(* its byte order; a field is << name, size of one item, items >>.         *)
(***************************************************************************)
elf_ehdr_fields(ei_class) ==
    IF ei_class = ELFCLASS32
    THEN << <<"e_ident", 1, 16>>, <<"e_type", 2, 1>>, <<"e_machine", 2, 1>>,
            <<"e_version", 4, 1>>, <<"e_entry", 4, 1>>, <<"e_phoff", 4, 1>>,
            <<"e_shoff", 4, 1>>, <<"e_flags", 4, 1>>, <<"e_ehsize", 2, 1>>,
            <<"e_phentsize", 2, 1>>, <<"e_phnum", 2, 1>>, <<"e_shentsize", 2, 1>>,
            <<"e_shnum", 2, 1>>, <<"e_shstrndx", 2, 1>> >>
    ELSE << <<"e_ident", 1, 16>>, <<"e_type", 2, 1>>, <<"e_machine", 2, 1>>,
            <<"e_version", 4, 1>>, <<"e_entry", 8, 1>>, <<"e_phoff", 8, 1>>,
            <<"e_shoff", 8, 1>>, <<"e_flags", 4, 1>>, <<"e_ehsize", 2, 1>>,
            <<"e_phentsize", 2, 1>>, <<"e_phnum", 2, 1>>, <<"e_shentsize", 2, 1>>,
            <<"e_shnum", 2, 1>>, <<"e_shstrndx", 2, 1>> >>

elf_phdr_fields(ei_class) ==
    IF ei_class = ELFCLASS32
    THEN << <<"p_type", 4, 1>>, <<"p_offset", 4, 1>>, <<"p_vaddr", 4, 1>>,
            <<"p_paddr", 4, 1>>, <<"p_filesz", 4, 1>>, <<"p_memsz", 4, 1>>,
            <<"p_flags", 4, 1>>, <<"p_align", 4, 1>> >>
    ELSE << <<"p_type", 4, 1>>, <<"p_flags", 4, 1>>, <<"p_offset", 8, 1>>,
            <<"p_vaddr", 8, 1>>, <<"p_paddr", 8, 1>>, <<"p_filesz", 8, 1>>,
            <<"p_memsz", 8, 1>>, <<"p_align", 8, 1>> >>

elf_shdr_fields(ei_class) ==
    IF ei_class = ELFCLASS32
    THEN << <<"sh_name", 4, 1>>, <<"sh_type", 4, 1>>, <<"sh_flags", 4, 1>>,
            <<"sh_addr", 4, 1>>, <<"sh_offset", 4, 1>>, <<"sh_size", 4, 1>>,
            <<"sh_link", 4, 1>>, <<"sh_info", 4, 1>>, <<"sh_addralign", 4, 1>>,
            <<"sh_entsize", 4, 1>> >>
    ELSE << <<"sh_name", 4, 1>>, <<"sh_type", 4, 1>>, <<"sh_flags", 8, 1>>,
            <<"sh_addr", 8, 1>>, <<"sh_offset", 8, 1>>, <<"sh_size", 8, 1>>,
            <<"sh_link", 4, 1>>, <<"sh_info", 4, 1>>, <<"sh_addralign", 8, 1>>,
            <<"sh_entsize", 8, 1>> >>

elf_sym_fields(ei_class) ==
    IF ei_class = ELFCLASS32
    THEN << <<"st_name", 4, 1>>, <<"st_value", 4, 1>>, <<"st_size", 4, 1>>,
            <<"st_info", 1, 1>>, <<"st_other", 1, 1>>, <<"st_shndx", 2, 1>> >>
    ELSE << <<"st_name", 4, 1>>, <<"st_info", 1, 1>>, <<"st_other", 1, 1>>,
            <<"st_shndx", 2, 1>>, <<"st_value", 8, 1>>, <<"st_size", 8, 1>> >>

\* build_structure: the type made of a field list and the factory's byte order
build_structure(fields, ei_data) == [fields |-> fields, order |-> ei_data]

elf_ehdr(f) == build_structure(elf_ehdr_fields(f.ei_class), f.ei_data)
elf_phdr(f) == build_structure(elf_phdr_fields(f.ei_class), f.ei_data)
elf_shdr(f) == build_structure(elf_shdr_fields(f.ei_class), f.ei_data)
elf_sym(f) == build_structure(elf_sym_fields(f.ei_class), f.ei_data)

RECURSIVE SizeUpTo(_, _)
SizeUpTo(fields, k) ==
    IF k = 0 THEN 0 ELSE SizeUpTo(fields, k - 1) + fields[k][2] * fields[k][3]

\* ctypes.sizeof of a structure type (the ELF layouts need no padding)
sizeof(T) == SizeUpTo(T.fields, Len(T.fields))

FieldIndex(T, name) == CHOOSE k \in 1..Len(T.fields) : T.fields[k][1] = name
FieldOffset(T, name) == SizeUpTo(T.fields, FieldIndex(T, name) - 1)
FieldSize(T, name) == LET fd == T.fields[FieldIndex(T, name)] IN fd[2] * fd[3]
FieldNames(T) == {T.fields[k][1] : k \in 1..Len(T.fields)}

\* the bytes of a field in the buffer <-> its word: an integer of a
\* big-endian structure is stored most significant byte first, an array of
\* bytes (e_ident) in index order
FieldBytes(T, name, w) ==
    IF T.order = ELFDATA2MSB /\ T.fields[FieldIndex(T, name)][3] = 1 THEN Reverse(w) ELSE w

\* T(): a zero-initialised instance
New(T) == Rec1([n \in FieldNames(T) |-> Zeros(FieldSize(T, n))])

\* instance.name = w
SetField(T, inst, name, w) == [inst EXCEPT ![name] = CStore(w, FieldSize(T, name))]

\* the instance of T that T.from_buffer(data, off) views
ReadStruct(T, data, off) ==
    Rec1([n \in FieldNames(T) |->
            FieldBytes(T, n, SubSeq(data, off + FieldOffset(T, n) + 1,
                                    off + FieldOffset(T, n) + FieldSize(T, n)))])

RECURSIVE StructBytesFrom(_, _, _)
StructBytesFrom(T, inst, k) ==
    IF k > Len(T.fields) THEN << >>
    ELSE FieldBytes(T, T.fields[k][1], inst[T.fields[k][1]]) \o StructBytesFrom(T, inst, k + 1)

\* the bytes of an instance (the buffer a slice assignment copies)
StructBytes(T, inst) == StructBytesFrom(T, inst, 1)

\* CopyableStructureMixIn.copy: a new instance holding the same bytes
copy(T, inst) == ReadStruct(T, StructBytes(T, inst), 0)

\* data with the bytes at off replaced by b (same length)
Overwrite(data, off, b) ==
    Seq1([i \in 1..Len(data) |-> IF i > off /\ i <= off + Len(b) THEN b[i - off] ELSE data[i]])

\* a store through a from_buffer view: the field's bytes in the buffer change
WriteField(T, data, off, name, w) ==
    Overwrite(data, off + FieldOffset(T, name),
              FieldBytes(T, name, CStore(w, FieldSize(T, name))))

\* (T * n).from_buffer(data, off) raises unless off + n * sizeof(T) <= len(data)
FromBufferOk(data, off, size) == WordInt(off) + size <= Len(data)

ArrayFromBuffer(T, n, data, off) ==
    Seq1([i \in 1..n |-> ReadStruct(T, data, WordInt(off) + (i - 1) * sizeof(T))])

ELFMAG == << 127, 69, 76, 70 >>

Take(s, n) == SubSeq(s, 1, IF n <= Len(s) THEN n ELSE Len(s))

Raise(exc) == [exc |-> exc]

\* ELFFactory.__init__
\* a faulty variant of ELFFactory.__init__: ei_class is not checked
ELFFactoryAnyClass(ei_class, ei_data) ==
    IF ei_data \notin {ELFDATA2LSB, ELFDATA2MSB} THEN Raise("ValueError")
    ELSE [exc |-> "none", ei_class |-> ei_class, ei_data |-> ei_data,
          wordsize |-> IF ei_class = ELFCLASS32 THEN 32 ELSE 64]

ELFFactory(ei_class, ei_data) ==
    IF ei_class \notin {ELFCLASS32, ELFCLASS64} THEN Raise("ValueError")
    ELSE IF ei_data \notin {ELFDATA2LSB, ELFDATA2MSB} THEN Raise("ValueError")
    ELSE [exc |-> "none", ei_class |-> ei_class, ei_data |-> ei_data,
          wordsize |-> IF ei_class = ELFCLASS32 THEN 32 ELSE 64]

\* ELFFile.__init__
ELFFile(data) ==
    IF Take(data, 4) # ELFMAG THEN Raise("ValueError")
    ELSE IF Len(data) < 6 THEN Raise("ValueError")
    ELSE LET f == ELFFactory(data[5], data[6]) IN
    IF f.exc # "none" THEN f
    ELSE IF sizeof(elf_ehdr(f)) > Len(data) THEN Raise("ValueError")
    ELSE LET ehdr == ReadStruct(elf_ehdr(f), data, 0)
             phnum == WordInt(ehdr.e_phnum)
             shnum == WordInt(ehdr.e_shnum)
         IN
    IF ~FromBufferOk(data, ehdr.e_phoff, phnum * sizeof(elf_phdr(f))) THEN Raise("ValueError")
    ELSE IF ~FromBufferOk(data, ehdr.e_shoff, shnum * sizeof(elf_shdr(f))) THEN Raise("ValueError")
    ELSE [exc |-> "none", data |-> data,
          ei_class |-> f.ei_class, ei_data |-> f.ei_data, wordsize |-> f.wordsize,
          ehdr |-> ehdr,
          phdrs |-> ArrayFromBuffer(elf_phdr(f), phnum, data, ehdr.e_phoff),
          shdrs |-> ArrayFromBuffer(elf_shdr(f), shnum, data, ehdr.e_shoff)]

RECURSIVE FindFrom(_, _, _)
FindFrom(data, byte, i) ==
    IF i >= Len(data) THEN -1
    ELSE IF data[i + 1] = byte THEN i
    ELSE FindFrom(data, byte, i + 1)

\* bytearray.find(b"\x00", start): the first index at or after start, or -1
find(data, byte, start) == FindFrom(data, byte, start)

\* ELFFile.shstr
shstr(elff, shndx) ==
    LET ndx == WordInt(elff.ehdr.e_shstrndx) IN
    IF ndx >= Len(elff.shdrs) THEN Raise("IndexError")
    ELSE LET strtab == elff.shdrs[ndx + 1]
             offset == WordInt(strtab.sh_offset) + WordInt(shndx)
             end == find(elff.data, 0, offset)
         IN  IF end < 0 THEN Raise("KeyError")
             ELSE [exc |-> "none", val |-> SubSeq(elff.data, offset + 1, end + 1)]

(***************************************************************************)
(* The synthesizer (wsym.py).  Byte strings are sequences of bytes.        *)
(***************************************************************************)
NUL == << 0 >>
GHOST == << 71, 72, 79, 83, 84 >>
UNDERSCORE == << 95 >>
CorruptName == << 99, 111, 114, 114, 117, 112, 116, 0 >>
WsymtabName == << 46, 119, 115, 121, 109, 116, 97, 98, 0 >>
StrtabName == << 46, 115, 116, 114, 116, 97, 98, 0 >>
\* a faulty spelling of the last name: b".shstrtab", the NUL forgotten
ShstrtabNameOpen == << 46, 115, 104, 115, 116, 114, 116, 97, 98 >>
ShstrtabName == << 46, 115, 104, 115, 116, 114, 116, 97, 98, 0 >>

\* "%d" % n
RECURSIVE FormatDec(_)
FormatDec(n) == IF n < 10 THEN << 48 + n >> ELSE FormatDec(n \div 10) \o << 48 + (n % 10) >>

\* the hexadecimal digits of a word, most significant first
Nibbles(w) ==
    Seq1([i \in 1..2 * Len(w) |->
            LET b == w[Len(w) - ((i - 1) \div 2)]
            IN  IF i % 2 = 1 THEN b \div 16 ELSE b % 16])

RECURSIVE StripZeros(_)
StripZeros(d) == IF Len(d) > 1 /\ d[1] = 0 THEN StripZeros(Tail(d)) ELSE d

HexChar(d) == IF d < 10 THEN 48 + d ELSE 87 + d

\* "%.*x" % (prec, w): at least prec digits, padded with zeros on the left
FormatHex(prec, w) ==
    LET d == StripZeros(Nibbles(w))
        padded == IF Len(d) < prec THEN Zeros(prec - Len(d)) \o d ELSE d
    IN  Seq1([i \in 1..Len(padded) |-> HexChar(padded[i])])

\* "GHOST%d_%.*x\x00" % (nbg, wordsize // 4, p_vaddr)
GhostName(nbg, wordsize, p_vaddr) ==
    GHOST \o FormatDec(nbg) \o UNDERSCORE \o FormatHex(wordsize \div 4, p_vaddr) \o NUL

RECURSIVE SetFields(_, _, _)
SetFields(T, inst, assigns) ==
    IF assigns = << >> THEN inst
    ELSE SetFields(T, SetField(T, inst, assigns[1][1], assigns[1][2]), Tail(assigns))

\* the flags of the ghost of a segment
\* a faulty variant of GhostFlags: PF_X and PF_W taken for one another
GhostFlagsSwapped(phdr) ==
    SHF_ALLOC + (IF BitSet(phdr.p_flags, 1) THEN SHF_EXECINSTR ELSE 0)
              + (IF BitSet(phdr.p_flags, 0) THEN SHF_WRITE ELSE 0)

GhostFlags(phdr) ==
    SHF_ALLOC + (IF BitSet(phdr.p_flags, 0) THEN SHF_EXECINSTR ELSE 0)
              + (IF BitSet(phdr.p_flags, 1) THEN SHF_WRITE ELSE 0)

\* the section header built for one PT_LOAD segment
GhostShdr(elff, phdr, shstrtab) ==
    SetFields(elf_shdr(elff), New(elf_shdr(elff)),
        << <<"sh_name", IntWord(Len(shstrtab))>>,
           <<"sh_type", IntWord(SHT_NOBITS)>>,
           <<"sh_flags", IntWord(GhostFlags(phdr))>>,
           <<"sh_addr", phdr.p_vaddr>>,
           <<"sh_offset", phdr.p_offset>>,
           <<"sh_size", phdr.p_memsz>>,
           <<"sh_link", IntWord(0)>>,
           <<"sh_info", IntWord(0)>>,
           <<"sh_addralign", IntWord(1)>>,
           <<"sh_entsize", IntWord(0)>> >>)

\* the loop over elff.phdrs, from the i-th on; st = [shstrtab, shdrs, nbg]
RECURSIVE BuildGhosts(_, _, _)
BuildGhosts(elff, i, st) ==
    IF i > Len(elff.phdrs) THEN st
    ELSE LET phdr == elff.phdrs[i] IN
         IF WordInt(phdr.p_type) # PT_LOAD THEN BuildGhosts(elff, i + 1, st)
         ELSE BuildGhosts(elff, i + 1,
                [shstrtab |-> st.shstrtab \o GhostName(st.nbg, elff.wordsize, phdr.p_vaddr),
                 shdrs |-> Append(st.shdrs, GhostShdr(elff, phdr, st.shstrtab)),
                 nbg |-> st.nbg + 1])

\* the name given to a copied section: what shstr returns, or the placeholder
CopiedName(r) == IF r.exc = "KeyError" THEN CorruptName ELSE r.val

\* shdr.sh_link += shoffset, and sh_info when the flags say it is a link
\* a faulty variant of Relink: sh_info is shifted whatever the flags
RelinkAlways(T, shdr, shoffset) ==
    LET linked == SetField(T, shdr, "sh_link", WAdd(shdr.sh_link, IntWord(shoffset)))
    IN  SetField(T, linked, "sh_info", WAdd(linked.sh_info, IntWord(shoffset)))

Relink(T, shdr, shoffset) ==
    LET linked == SetField(T, shdr, "sh_link", WAdd(shdr.sh_link, IntWord(shoffset)))
    IN  IF BitSet(shdr.sh_flags, 6)
        THEN SetField(T, linked, "sh_info", WAdd(linked.sh_info, IntWord(shoffset)))
        ELSE linked

\* the loop over elff.shdrs, from the i-th on; st = [exc, shstrtab, shdrs]
RECURSIVE CopySections(_, _, _, _)
CopySections(elff, i, shoffset, st) ==
    IF i > Len(elff.shdrs) THEN st
    ELSE LET T == elf_shdr(elff)
             shdr == copy(T, elff.shdrs[i])
             r == shstr(elff, shdr.sh_name)
         IN  IF r.exc \notin {"none", "KeyError"}
             THEN [st EXCEPT !.exc = r.exc]
             ELSE CopySections(elff, i + 1, shoffset,
                    [exc |-> "none",
                     shstrtab |-> st.shstrtab \o CopiedName(r),
                     shdrs |-> Append(st.shdrs,
                        Relink(T, SetField(T, shdr, "sh_name", IntWord(Len(st.shstrtab))),
                               shoffset))])

\* shdr.sh_addr <= addr < shdr.sh_addr + shdr.sh_size
Contains(shdr, addr) ==
    WLeq(shdr.sh_addr, addr) /\ WLess(addr, WAdd(shdr.sh_addr, shdr.sh_size))

\* the index of the first section from index shndx on that contains addr, or -1
RECURSIVE FirstSection(_, _, _)
FirstSection(shdrs, addr, shndx) ==
    IF shndx >= Len(shdrs) THEN -1
    ELSE IF Contains(shdrs[shndx + 1], addr) THEN shndx
    ELSE FirstSection(shdrs, addr, shndx + 1)

\* the entry built for a resolved symbol
SymEntry(elff, symbol, symstrtab, shndx) ==
    SetFields(elf_sym(elff), New(elf_sym(elff)),
        << <<"st_name", IntWord(Len(symstrtab))>>,
           <<"st_value", symbol.addr>>,
           <<"st_size", symbol.size>>,
           <<"st_info", IntWord(16 + 2)>>,
           <<"st_other", IntWord(0)>>,
           <<"st_shndx", IntWord(shndx)>> >>)

\* a faulty variant of CollectSymbols: the report is not followed by `continue`,
\* so the symbol is entered with the index the search stopped at
RECURSIVE CollectSymbolsNoContinue(_, _, _, _, _)
CollectSymbolsNoContinue(elff, shdrs, symbols, i, st) ==
    IF i > Len(symbols) THEN st
    ELSE LET shndx == FirstSection(shdrs, symbols[i].addr, 0)
             at == IF shndx < 0 THEN Len(shdrs) - 1 ELSE shndx
         IN  CollectSymbolsNoContinue(elff, shdrs, symbols, i + 1,
                [symstrtab |-> st.symstrtab \o symbols[i].name \o NUL,
                 symtab |-> Append(st.symtab, SymEntry(elff, symbols[i], st.symstrtab, at)),
                 printed |-> IF shndx < 0
                             THEN Append(st.printed, [msg |-> "ignored (bad addr)",
                                                      addr |-> symbols[i].addr,
                                                      name |-> symbols[i].name])
                             ELSE st.printed])

\* the loop over symbols, from the i-th on; st = [symstrtab, symtab, printed]
RECURSIVE CollectSymbols(_, _, _, _, _)
CollectSymbols(elff, shdrs, symbols, i, st) ==
    IF i > Len(symbols) THEN st
    ELSE LET shndx == FirstSection(shdrs, symbols[i].addr, 0) IN
         IF shndx < 0
         THEN CollectSymbols(elff, shdrs, symbols, i + 1,
                [st EXCEPT !.printed = Append(@, [msg |-> "ignored (bad addr)",
                                                  addr |-> symbols[i].addr,
                                                  name |-> symbols[i].name])])
         ELSE CollectSymbols(elff, shdrs, symbols, i + 1,
                [symstrtab |-> st.symstrtab \o symbols[i].name \o NUL,
                 symtab |-> Append(st.symtab, SymEntry(elff, symbols[i], st.symstrtab, shndx)),
                 printed |-> st.printed])

RECURSIVE StructsBytesFrom(_, _, _)
StructsBytesFrom(T, insts, i) ==
    IF i > Len(insts) THEN << >>
    ELSE StructBytes(T, insts[i]) \o StructsBytesFrom(T, insts, i + 1)

\* the bytes the loop "for x in insts: newdata[offset:offset+sizeof(x)] = x" lays down
StructsBytes(T, insts) == StructsBytesFrom(T, insts, 1)

\* a faulty variant of NewShdr: the link is one short, so that the symbol
\* table links to itself
NewShdrLinkSelf(elff, shstrtab, type, offset, size, link, entsize) ==
    SetFields(elf_shdr(elff), New(elf_shdr(elff)),
        << <<"sh_name", IntWord(Len(shstrtab))>>,
           <<"sh_type", IntWord(type)>>,
           <<"sh_flags", IntWord(0)>>,
           <<"sh_addr", IntWord(0)>>,
           <<"sh_offset", offset>>,
           <<"sh_size", size>>,
           <<"sh_link", IntWord(IF link > 0 THEN link - 1 ELSE 0)>>,
           <<"sh_info", IntWord(0)>>,
           <<"sh_addralign", IntWord(1)>>,
           <<"sh_entsize", IntWord(entsize)>> >>)

\* the header of one of the three new sections; offset and size are words
NewShdr(elff, shstrtab, type, offset, size, link, entsize) ==
    SetFields(elf_shdr(elff), New(elf_shdr(elff)),
        << <<"sh_name", IntWord(Len(shstrtab))>>,
           <<"sh_type", IntWord(type)>>,
           <<"sh_flags", IntWord(0)>>,
           <<"sh_addr", IntWord(0)>>,
           <<"sh_offset", offset>>,
           <<"sh_size", size>>,
           <<"sh_link", IntWord(link)>>,
           <<"sh_info", IntWord(0)>>,
           <<"sh_addralign", IntWord(1)>>,
           <<"sh_entsize", IntWord(entsize)>> >>)

\* a faulty variant of PatchHeader: the first store goes to e_phoff
PatchHeaderPhoff(T, newdata, shoff, shentsize, nshdrs) ==
    WriteField(T,
      WriteField(T,
        WriteField(T,
          WriteField(T, newdata, 0, "e_phoff", IntWord(shoff)),
          0, "e_shentsize", IntWord(shentsize)),
        0, "e_shnum", IntWord(nshdrs)),
      0, "e_shstrndx", IntWord(nshdrs - 1))

\* the four stores into newelf.ehdr, a view of the first bytes of newdata
PatchHeader(T, newdata, shoff, shentsize, nshdrs) ==
    WriteField(T,
      WriteField(T,
        WriteField(T,
          WriteField(T, newdata, 0, "e_shoff", IntWord(shoff)),
          0, "e_shentsize", IntWord(shentsize)),
        0, "e_shnum", IntWord(nshdrs)),
      0, "e_shstrndx", IntWord(nshdrs - 1))

\* an ELFFile whose buffer has been written since it was built: ehdr, phdrs
\* and shdrs are views of the buffer at the offsets read when it was built
Views(e, data) ==
    [e EXCEPT !.data = data,
              !.ehdr = ReadStruct(elf_ehdr(e), data, 0),
              !.phdrs = ArrayFromBuffer(elf_phdr(e), Len(e.phdrs), data, e.ehdr.e_phoff),
              !.shdrs = ArrayFromBuffer(elf_shdr(e), Len(e.shdrs), data, e.ehdr.e_shoff)]

\* add_symbols(elff, symbols): [exc, printed, newelf]
add_symbols(elff, symbols) ==
    LET shdr_t == elf_shdr(elff)
        sym_t == elf_sym(elff)
        g == BuildGhosts(elff, 1, [shstrtab |-> NUL, shdrs |-> << New(shdr_t) >>, nbg |-> 0])
        shoffset == Len(g.shdrs)
        c == CopySections(elff, 1, shoffset,
                          [exc |-> "none", shstrtab |-> g.shstrtab, shdrs |-> g.shdrs])
    IN
    IF c.exc # "none" THEN [exc |-> c.exc, printed |-> << >>]
    ELSE
    LET nullsym == SetField(sym_t, New(sym_t), "st_name", IntWord(0))
        s == CollectSymbols(elff, c.shdrs, symbols, 1,
                            [symstrtab |-> NUL, symtab |-> << nullsym >>, printed |-> << >>])
        symtabhdr == NewShdr(elff, c.shstrtab, SHT_SYMTAB,
                             IntWord(Len(elff.data)),
                             IntWord(Len(s.symtab) * sizeof(sym_t)),
                             Len(c.shdrs) + 1, sizeof(sym_t))
        shstrtab1 == c.shstrtab \o WsymtabName
        symstrtabhdr == NewShdr(elff, shstrtab1, SHT_STRTAB,
                                WAdd(IntWord(Len(elff.data)), symtabhdr.sh_size),
                                IntWord(Len(s.symstrtab)), 0, 0)
        shstrtab2 == shstrtab1 \o StrtabName
        shstrtab == shstrtab2 \o ShstrtabName
        shstrtabhdr == NewShdr(elff, shstrtab2, SHT_STRTAB,
                               WAdd(WAdd(IntWord(Len(elff.data)), symtabhdr.sh_size),
                                    symstrtabhdr.sh_size),
                               IntWord(Len(shstrtab)), 0, 0)
        shdrs == c.shdrs \o << symtabhdr, symstrtabhdr, shstrtabhdr >>
        symbytes == StructsBytes(sym_t, s.symtab)
        shoff == Len(elff.data) + Len(symbytes) + Len(s.symstrtab) + Len(shstrtab)
        newdata == elff.data \o symbytes \o s.symstrtab \o shstrtab
                             \o StructsBytes(shdr_t, shdrs)
        newelf == ELFFile(newdata)
    IN
    IF newelf.exc # "none" THEN [exc |-> newelf.exc, printed |-> s.printed]
    ELSE [exc |-> "none", printed |-> s.printed,
          newelf |-> Views(newelf, PatchHeader(elf_ehdr(newelf), newdata, shoff,
                                               sizeof(shdr_t), Len(shdrs)))]

(***************************************************************************)
(* The input files: images laid out as  ehdr | phdrs | .shstrtab | shdrs,  *)
(* and the symbol lists the parsers hand over.                             *)
(***************************************************************************)
\* b"\x00.shstrtab\x00.text\x00.rela\x00": the names at offsets 0, 1, 11, 17
InStrtab == << 0, 46, 115, 104, 115, 116, 114, 116, 97, 98, 0,
               46, 116, 101, 120, 116, 0, 46, 114, 101, 108, 97, 0 >>

Seg(type, flags, vaddr, memsz) ==
    [p_type |-> type, p_flags |-> flags, p_vaddr |-> vaddr, p_memsz |-> memsz]

\* a read-execute segment at 0x400000, a read-write segment at 0x601000, a note
SegPool ==
    << Seg(PT_LOAD, PF_R + PF_X, << 0, 0, 64 >>, << 0, 16 >>),
       Seg(PT_LOAD, PF_R + PF_W, << 0, 16, 96 >>, << 0, 1 >>),
       Seg(PT_NOTE, PF_R, << 0, 2, 64 >>, << 32 >>) >>

Sec(name, type, flags, addr, size, link, info) ==
    [sh_name |-> name, sh_type |-> type, sh_flags |-> flags, sh_addr |-> addr,
     sh_size |-> size, sh_link |-> link, sh_info |-> info]

NullSec == Sec(<< 0 >>, 0, 0, << 0 >>, << 0 >>, << 0 >>, << 0 >>)
\* .shstrtab: not allocated, so its address is 0 and it spans [0, 23)
ShstrSec == Sec(<< 1 >>, SHT_STRTAB, 0, << 0 >>, << Len(InStrtab) >>, << 0 >>, << 0 >>)

\* the sections that follow the null section and .shstrtab:
\*   .text at 0x400100, 0x100 bytes, with a non-zero sh_info that is no link;
\*   .rela, whose sh_info is a link;
\*   a section whose sh_link and sh_info are at the top of 32 bits;
\*   a section named from an offset just past the content of .shstrtab;
\*   a section named from an offset past the end of the file;
\*   a section in the last 16 bytes of the address space, 32 bytes long
SecPool(ei_class) ==
    << Sec(<< 11 >>, SHT_PROGBITS, SHF_ALLOC + SHF_EXECINSTR, << 0, 1, 64 >>, << 0, 1 >>,
           << 0 >>, << 3 >>),
       Sec(<< 17 >>, SHT_RELA, SHF_INFO_LINK, << 0 >>, << 0 >>, << 1 >>, << 2 >>),
       Sec(<< 11 >>, SHT_RELA, SHF_INFO_LINK, << 0 >>, << 0 >>,
           << 255, 255, 255, 255 >>, << 254, 255, 255, 255 >>),
       Sec(<< Len(InStrtab) + 2 >>, SHT_PROGBITS, SHF_ALLOC, << 0, 2, 64 >>, << 16 >>,
           << 0 >>, << 0 >>),
       Sec(<< 255, 255, 255, 255 >>, SHT_PROGBITS, SHF_ALLOC, << 0, 3, 64 >>, << 16 >>,
           << 0 >>, << 0 >>),
       Sec(<< 11 >>, SHT_PROGBITS, SHF_ALLOC,
           CStore(<< 240, 255, 255, 255, 255, 255, 255, 255 >>,
                  IF ei_class = ELFCLASS32 THEN 4 ELSE 8),
           << 32 >>, << 0 >>, << 0 >>) >>

\* n items of pool, from the k-th on, cyclically
Window(pool, k, n) == Seq1([i \in 1..n |-> pool[((k + i - 2) % Len(pool)) + 1]])

\* tables that start with a PT_LOAD segment and tables that start with the note
SegLists == {Window(SegPool, k, n) : k \in {1, Len(SegPool)}, n \in 0..MaxPhdrs}

SecLists(ei_class) ==
    {SubSeq(<< NullSec, ShstrSec >> \o Window(SecPool(ei_class), k, MaxShdrs), 1, n) :
        k \in 1..Len(SecPool(ei_class)), n \in 0..MaxShdrs}

Mangles == {"none", "magic", "class", "order", "phpast", "shpast", "phover"}

\* the bytes of the image described by d = [ei_class, ei_data, segs, secs, mangle]
MkImage(d) ==
    LET f == [ei_class |-> d.ei_class, ei_data |-> d.ei_data]
        E == elf_ehdr(f)
        P == elf_phdr(f)
        S == elf_shdr(f)
        phsize == Len(d.segs) * sizeof(P)
        shsize == Len(d.secs) * sizeof(S)
        stroff == sizeof(E) + phsize
        total == stroff + Len(InStrtab) + shsize
        phoff == CASE d.mangle = "phpast" -> total - phsize + 1
                   [] d.mangle = "phover" -> sizeof(E) - sizeof(P)
                   [] OTHER -> sizeof(E)
        shoff == IF d.mangle = "shpast" THEN total - shsize + 1 ELSE stroff + Len(InStrtab)
        ident == << IF d.mangle = "magic" THEN 126 ELSE 127, 69, 76, 70,
                    IF d.mangle = "class" THEN 3 ELSE d.ei_class,
                    IF d.mangle = "order" THEN 0 ELSE d.ei_data, 1 >>
        ehdr == SetFields(E, New(E),
                  << <<"e_ident", ident>>, <<"e_type", IntWord(2)>>,
                     <<"e_machine", IntWord(3)>>, <<"e_version", IntWord(1)>>,
                     <<"e_entry", << 0, 0, 64 >> >>,
                     <<"e_phoff", IntWord(phoff)>>, <<"e_shoff", IntWord(shoff)>>,
                     <<"e_ehsize", IntWord(sizeof(E))>>,
                     <<"e_phentsize", IntWord(sizeof(P))>>,
                     <<"e_phnum", IntWord(Len(d.segs))>>,
                     <<"e_shentsize", IntWord(sizeof(S))>>,
                     <<"e_shnum", IntWord(Len(d.secs))>>,
                     <<"e_shstrndx", IntWord(1)>> >>)
        phdrs == Seq1([i \in 1..Len(d.segs) |->
                    SetFields(P, New(P),
                      << <<"p_type", IntWord(d.segs[i].p_type)>>,
                         <<"p_flags", IntWord(d.segs[i].p_flags)>>,
                         <<"p_offset", IntWord(16 * i)>>,
                         <<"p_vaddr", d.segs[i].p_vaddr>>,
                         <<"p_paddr", IntWord(4096 * i)>>,
                         <<"p_filesz", IntWord(8 * i)>>,
                         <<"p_memsz", d.segs[i].p_memsz>>,
                         <<"p_align", IntWord(1)>> >>)])
        shdrs == Seq1([i \in 1..Len(d.secs) |->
                    SetFields(S, New(S),
                      << <<"sh_name", d.secs[i].sh_name>>,
                         <<"sh_type", IntWord(d.secs[i].sh_type)>>,
                         <<"sh_flags", IntWord(d.secs[i].sh_flags)>>,
                         <<"sh_addr", d.secs[i].sh_addr>>,
                         <<"sh_offset", IF d.secs[i].sh_type = SHT_STRTAB
                                        THEN IntWord(stroff) ELSE IntWord(0)>>,
                         <<"sh_size", d.secs[i].sh_size>>,
                         <<"sh_link", d.secs[i].sh_link>>,
                         <<"sh_info", d.secs[i].sh_info>>,
                         <<"sh_addralign", IntWord(1)>> >>)])
    IN  StructBytes(E, ehdr) \o StructsBytes(P, phdrs) \o InStrtab \o StructsBytes(S, shdrs)

\* an image whose program-header table lies over the file header has one
ImageDescs ==
    {d \in [ei_class : {ELFCLASS32, ELFCLASS64}, ei_data : {ELFDATA2LSB, ELFDATA2MSB},
            segs : SegLists, secs : SecLists(ELFCLASS32) \cup SecLists(ELFCLASS64),
            mangle : Mangles] :
        /\ d.secs \in SecLists(d.ei_class)
        /\ d.mangle = "phover" => d.segs # << >> /\ Len(d.secs) <= 2}

Sym(name, addr, size) == [name |-> name, addr |-> addr, size |-> size]

\* ("main", 0x400100, 0x20), ("main", 0x30, 0), ("bad", 0xdeadbeef, 0)
\* and ("wrap", 0x100000005, 4)
SymPool ==
    << Sym(<< 109, 97, 105, 110 >>, << 0, 1, 64 >>, << 32 >>),
       Sym(<< 109, 97, 105, 110 >>, << 48 >>, << 0 >>),
       Sym(<< 98, 97, 100 >>, << 239, 190, 173, 222 >>, << 0 >>),
       Sym(<< 119, 114, 97, 112 >>, << 5, 0, 0, 0, 1 >>, << 4 >>) >>

\* lists that start with a symbol inside the sections and lists that start with
\* one outside them
SymLists == {Window(SymPool, k, n) : k \in {1, 3}, n \in 0..MaxSyms}

(***************************************************************************)
(* The program (wsym.py, __main__).                                        *)
(***************************************************************************)
VARIABLES
    pc,         \* where the run is: "start", "loaded", "added", "done", "failed"
    input,      \* args.input.read()
    symbols,    \* the list the parsers returned
    elff,       \* the ELFFile of the input
    newelf,     \* what add_symbols returned
    stdout,     \* what was printed
    output,     \* what was written to args.output
    wide,       \* a run on an image too long to hold byte by byte (see below)
    flat,       \* a call of FlatParser.get_symbols (see below)
    round       \* how many times add_symbols was applied to its own output

vars == << pc, input, symbols, elff, newelf, stdout, output, wide, flat, round >>

NoWide == [pc |-> "off"]

NoFlat == [pc |-> "off"]

Unset == [exc |-> "unset"]

EmptyWarning == [msg |-> "Warning: No symbols are being added.", addr |-> << >>, name |-> << >>]

Init ==
    /\ pc = "start"
    /\ \E d \in ImageDescs : input = MkImage(d)
    /\ symbols \in SymLists
    /\ elff = Unset
    /\ newelf = Unset
    /\ stdout = << >>
    /\ output = << >>
    /\ wide = NoWide
    /\ flat = NoFlat
    /\ round = 0

\* elff = elf.ELFFile(bytearray(args.input.read()))
Load ==
    /\ pc = "start"
    /\ elff' = ELFFile(input)
    /\ pc' = IF elff'.exc = "none" THEN "loaded" ELSE "failed"
    /\ UNCHANGED << input, symbols, newelf, stdout, output, wide, flat, round >>

\* the warning when there is no symbol, then newelf = add_symbols(elff, symbols)
AddSymbols ==
    /\ pc = "loaded"
    /\ \E r \in {add_symbols(elff, symbols)} :
           /\ stdout' = stdout \o (IF symbols = << >> THEN << EmptyWarning >> ELSE << >>)
                               \o r.printed
           /\ newelf' = IF r.exc = "none" THEN r.newelf ELSE [exc |-> r.exc]
           /\ pc' = IF r.exc = "none" THEN "added" ELSE "failed"
    /\ UNCHANGED << input, symbols, elff, output, wide, flat, round >>

\* args.output.write(newelf.data)
Write ==
    /\ pc = "added"
    /\ output' = newelf.data
    /\ pc' = "done"
    /\ UNCHANGED << input, symbols, elff, newelf, stdout, wide, flat, round >>

Next == Load \/ AddSymbols \/ Write

Spec == Init /\ [][Next]_vars

(***************************************************************************)
(* The same run on images whose tables have up to 65535 entries.  Such an  *)
(* image is held as its file header, its length and the number of PT_LOAD  *)
(* entries of its program-header table; its sections are a null section,   *)
(* a one-byte .shstrtab and sections named from offset 0.  No symbol is    *)
(* given.  The header is read and written with the same structures.        *)
(***************************************************************************)
WidePhnums == {0, 1, 2, 65535}
WideShnums == {0, 2, 3} \cup {65535 - k : k \in 0..WideSpan}

WideDescs ==
    {d \in [ei_class : {ELFCLASS32, ELFCLASS64}, ei_data : {ELFDATA2LSB, ELFDATA2MSB},
            e_phnum : WidePhnums, nload : 0..MaxPhdrs, e_shnum : WideShnums] :
        d.nload <= d.e_phnum}

\* layout  ehdr | phdrs | b"\x00" | shdrs
WideLen(d) ==
    LET f == [ei_class |-> d.ei_class, ei_data |-> d.ei_data]
    IN  sizeof(elf_ehdr(f)) + d.e_phnum * sizeof(elf_phdr(f)) + 1
          + d.e_shnum * sizeof(elf_shdr(f))

WideHeader(d) ==
    LET f == [ei_class |-> d.ei_class, ei_data |-> d.ei_data]
        E == elf_ehdr(f)
        P == elf_phdr(f)
        S == elf_shdr(f)
        ehdr == SetFields(E, New(E),
                  << <<"e_ident", << 127, 69, 76, 70, d.ei_class, d.ei_data, 1 >> >>,
                     <<"e_type", IntWord(2)>>,
                     <<"e_machine", IntWord(3)>>, <<"e_version", IntWord(1)>>,
                     <<"e_phoff", IntWord(sizeof(E))>>,
                     <<"e_shoff", IntWord(sizeof(E) + d.e_phnum * sizeof(P) + 1)>>,
                     <<"e_ehsize", IntWord(sizeof(E))>>,
                     <<"e_phentsize", IntWord(sizeof(P))>>,
                     <<"e_phnum", IntWord(d.e_phnum)>>,
                     <<"e_shentsize", IntWord(sizeof(S))>>,
                     <<"e_shnum", IntWord(d.e_shnum)>>,
                     <<"e_shstrndx", IntWord(IF d.e_shnum = 0 THEN 0 ELSE 1)>> >>)
    IN  StructBytes(E, ehdr)

WideInit ==
    /\ pc = "wide"
    /\ input = << >>
    /\ symbols = << >>
    /\ elff = Unset
    /\ newelf = Unset
    /\ stdout = << >>
    /\ output = << >>
    /\ flat = NoFlat
    /\ round = 0
    /\ \E d \in WideDescs :
           wide = [pc |-> "start", header |-> WideHeader(d), len |-> WideLen(d),
                   nload |-> d.nload]

\* ELFFile.__init__ on the image: the header, then the two arrays over the file
WideLoad ==
    /\ wide.pc = "start"
    /\ LET f == ELFFactory(wide.header[5], wide.header[6])
           ehdr == ReadStruct(elf_ehdr(f), wide.header, 0)
           phnum == WordInt(ehdr.e_phnum)
           shnum == WordInt(ehdr.e_shnum)
           ok == /\ Take(wide.header, 4) = ELFMAG
                 /\ WordInt(ehdr.e_phoff) + phnum * sizeof(elf_phdr(f)) <= wide.len
                 /\ WordInt(ehdr.e_shoff) + shnum * sizeof(elf_shdr(f)) <= wide.len
       IN  wide' = [pc |-> IF ok THEN "loaded" ELSE "failed",
                    header |-> wide.header, len |-> wide.len, nload |-> wide.nload,
                    ei_class |-> f.ei_class, ei_data |-> f.ei_data,
                    wordsize |-> f.wordsize, nphdrs |-> phnum, nshdrs |-> shnum]
    /\ UNCHANGED << pc, input, symbols, elff, newelf, stdout, output, flat, round >>

RECURSIVE WideGhostNames(_, _)
\* the length of the names of the first n ghosts, their segments being at 0
WideGhostNames(w, n) ==
    IF n = 0 THEN 0
    ELSE WideGhostNames(w, n - 1) + Len(GhostName(n - 1, w.wordsize, << 0 >>))

\* add_symbols(elff, []): the lengths of what it appends, and the header patch
WideAddSymbols ==
    /\ wide.pc = "loaded"
    /\ LET shdr_t == elf_shdr(wide)
           sym_t == elf_sym(wide)
           shoffset == 1 + wide.nload
           nshdrs == shoffset + wide.nshdrs + 3
           shstrtab == 1 + WideGhostNames(wide, wide.nload) + wide.nshdrs
                         + Len(WsymtabName) + Len(StrtabName) + Len(ShstrtabName)
           shoff == wide.len + sizeof(sym_t) + 1 + shstrtab
       IN  wide' = [wide EXCEPT
                     !.pc = "added",
                     !.header = PatchHeader(elf_ehdr(wide), wide.header, shoff,
                                            sizeof(shdr_t), nshdrs),
                     !.len = shoff + sizeof(shdr_t) * nshdrs]
    /\ UNCHANGED << pc, input, symbols, elff, newelf, stdout, output, flat, round >>

\* args.output.write(newelf.data)
WideWrite ==
    /\ wide.pc = "added"
    /\ wide' = [wide EXCEPT !.pc = "done"]
    /\ UNCHANGED << pc, input, symbols, elff, newelf, stdout, output, flat, round >>

WideNext == WideLoad \/ WideAddSymbols \/ WideWrite

SpecWide == WideInit /\ [][WideNext]_vars

(***************************************************************************)
(* The flat symbol list reader (wsym.py, FlatParser).  A file is the       *)
(* sequence of its lines, a line the sequence of its characters, the       *)
(* newline included.                                                       *)
(***************************************************************************)
\* the whitespace str.split() splits at
IsSpace(c) == c \in {9, 10, 11, 12, 13, 28, 29, 30, 31, 32}

RECURSIVE split(_)
\* line.split(): the maximal runs of characters that are not whitespace
split(line) ==
    IF line = << >> THEN << >>
    ELSE IF IsSpace(Head(line)) THEN split(Tail(line))
    ELSE LET ends == {i \in 1..Len(line) : IsSpace(line[i])}
             n == IF ends = {} THEN Len(line) + 1
                  ELSE CHOOSE i \in ends : \A j \in ends : i <= j
         IN  << SubSeq(line, 1, n - 1) >> \o split(SubSeq(line, n, Len(line)))

\* line.startswith(prefix)
startswith(line, prefix) ==
    Len(line) >= Len(prefix) /\ SubSeq(line, 1, Len(prefix)) = prefix

\* the value of a hexadecimal digit, -1 for any other character
HexDigit(c) ==
    IF c \in 48..57 THEN c - 48
    ELSE IF c \in 97..102 THEN c - 87
    ELSE IF c \in 65..70 THEN c - 55
    ELSE -1

RECURSIVE Trim(_)
\* a word without its high zero bytes
Trim(w) == IF Len(w) > 1 /\ w[Len(w)] = 0 THEN Trim(SubSeq(w, 1, Len(w) - 1)) ELSE w

\* int(token, 16) on a token of digits with or without the prefix 0x; a sign
\* or underscores between the digits, which int() also reads, are in no input
int16(token) ==
    LET prefixed == Len(token) >= 2 /\ token[1] = 48 /\ token[2] \in {88, 120}
        digits == IF prefixed THEN SubSeq(token, 3, Len(token)) ELSE token
        r == Reverse(digits)
    IN  IF digits = << >> \/ \E i \in 1..Len(digits) : HexDigit(digits[i]) = -1
        THEN Raise("ValueError")
        ELSE [exc |-> "none",
              val |-> Trim(Seq1([i \in 1..(Len(r) + 1) \div 2 |->
                          HexDigit(r[2 * i - 1])
                          + (IF 2 * i <= Len(r) THEN 16 * HexDigit(r[2 * i]) ELSE 0)]))]

\* self.log("%15s = %#x,\tsize=%d" % (name, addr, size))
FlatLog(name, addr, size) ==
    [msg |-> "FlatParser: %15s = %#x,\tsize=%d", name |-> name,
     addr |-> << 48, 120 >> \o FormatHex(1, addr), size |-> FormatDec(WordInt(size))]

\* the name splted is bound nowhere in get_symbols: reading it raises
splted == Raise("NameError")

\* the end of the loop body: the two conversions, the log and the append
FlatAppend(addr, name, size, verbose) ==
    LET a == int16(addr)
        s == int16(size)
    IN  IF a.exc # "none" THEN Raise(a.exc)
        ELSE IF s.exc # "none" THEN Raise(s.exc)
        ELSE [exc |-> "none", symbols |-> << Sym(name, a.val, s.val) >>,
              printed |-> IF verbose THEN << FlatLog(name, a.val, s.val) >> ELSE << >>]

\* one turn of the loop of get_symbols: what the line adds, or what it raises
FlatLine(line, verbose) ==
    LET continue == [exc |-> "none", symbols |-> << >>, printed |-> << >>]
        splited == split(line)
    IN  IF startswith(line, << 35 >>) THEN continue
        ELSE IF Len(splited) = 3
        THEN FlatAppend(splited[1], splited[2], splited[3], verbose)
        ELSE IF splted.exc # "none" THEN Raise(splted.exc)
        ELSE IF Len(splted.val) = 2
        THEN FlatAppend(splited[1], splited[2], << 48 >>, verbose)
        ELSE continue

\* "# comment", "400100 main 20", "400100 main", "corrupted_line_with_one_token",
\* the empty line, "0x30 main 0X0 extra", "zz bad 0" and "  deadbeef<TAB>bad 0"
LinePool ==
    << << 35, 32, 99, 111, 109, 109, 101, 110, 116, 10 >>,
       << 52, 48, 48, 49, 48, 48, 32, 109, 97, 105, 110, 32, 50, 48, 10 >>,
       << 52, 48, 48, 49, 48, 48, 32, 109, 97, 105, 110, 10 >>,
       << 99, 111, 114, 114, 117, 112, 116, 101, 100, 95, 108, 105, 110, 101, 95,
          119, 105, 116, 104, 95, 111, 110, 101, 95, 116, 111, 107, 101, 110, 10 >>,
       << 10 >>,
       << 48, 120, 51, 48, 32, 109, 97, 105, 110, 32, 48, 88, 48, 32, 101, 120, 116,
          114, 97, 10 >>,
       << 122, 122, 32, 98, 97, 100, 32, 48, 10 >>,
       << 32, 32, 100, 101, 97, 100, 98, 101, 101, 102, 9, 98, 97, 100, 32, 48, 10 >> >>

FlatFiles ==
    UNION {[1..n -> {LinePool[k] : k \in 1..Len(LinePool)}] : n \in 0..MaxLines}

\* FlatParser(path).get_symbols(elff, verbose) is called
FlatInit ==
    /\ pc = "flat"
    /\ input = << >>
    /\ symbols = << >>
    /\ elff = Unset
    /\ newelf = Unset
    /\ stdout = << >>
    /\ output = << >>
    /\ wide = NoWide
    /\ round = 0
    /\ \E file \in FlatFiles, verbose \in BOOLEAN :
           flat = [pc |-> "reading", file |-> file, verbose |-> verbose, read |-> 0,
                   symbols |-> << >>, printed |-> << >>, exc |-> "none"]

\* for line in self.file: one line is read and handled
FlatRead ==
    /\ flat.pc = "reading"
    /\ flat.read < Len(flat.file)
    /\ \E r \in {FlatLine(flat.file[flat.read + 1], flat.verbose)} :
           flat' = IF r.exc # "none"
                   THEN [flat EXCEPT !.pc = "raised", !.read = @ + 1, !.exc = r.exc]
                   ELSE [flat EXCEPT !.read = @ + 1,
                                     !.symbols = @ \o r.symbols,
                                     !.printed = @ \o r.printed]
    /\ UNCHANGED << pc, input, symbols, elff, newelf, stdout, output, wide, round >>

\* return symbols, the file being exhausted
FlatReturn ==
    /\ flat.pc = "reading"
    /\ flat.read = Len(flat.file)
    /\ flat' = [flat EXCEPT !.pc = "returned"]
    /\ UNCHANGED << pc, input, symbols, elff, newelf, stdout, output, wide, round >>

FlatNext == FlatRead \/ FlatReturn

SpecFlat == FlatInit /\ [][FlatNext]_vars

(***************************************************************************)
(* add_symbols applied to what it produced: to the ELFFile it returned, or *)
(* to the file the program wrote, given to the program as its input.       *)
(***************************************************************************)
\* the images that start such runs: well-formed ones, with at most one symbol
AgainDescs == {d \in ImageDescs : d.mangle = "none"}

AgainInit ==
    /\ pc = "start"
    /\ \E d \in AgainDescs : input = MkImage(d)
    /\ symbols \in {l \in SymLists : Len(l) <= 1}
    /\ elff = Unset
    /\ newelf = Unset
    /\ stdout = << >>
    /\ output = << >>
    /\ wide = NoWide
    /\ flat = NoFlat
    /\ round = 0

\* add_symbols(newelf, symbols): the ELFFile add_symbols returned is its argument
Again ==
    /\ pc = "added"
    /\ round < MaxRounds
    /\ elff' = newelf
    /\ newelf' = Unset
    /\ pc' = "loaded"
    /\ round' = round + 1
    /\ UNCHANGED << input, symbols, stdout, output, wide, flat >>

\* the program is run on the file it wrote, with the same symbols
Reload ==
    /\ pc = "done"
    /\ round < MaxRounds
    /\ input' = output
    /\ elff' = Unset
    /\ newelf' = Unset
    /\ output' = << >>
    /\ pc' = "start"
    /\ round' = round + 1
    /\ UNCHANGED << symbols, stdout, wide, flat >>

AgainNext == Load \/ AddSymbols \/ Write \/ Again \/ Reload

SpecAgain == AgainInit /\ [][AgainNext]_vars

(***************************************************************************)
(* What a run leaves behind, as the properties below read it.              *)
(***************************************************************************)
\* add_symbols has returned
Returned == pc \in {"added", "done"}

\* the positions (from 1) of a field of the file header, and of a table
FieldSpan(T, name) == (FieldOffset(T, name) + 1)..(FieldOffset(T, name) + FieldSize(T, name))
TableSpan(off, n, size) == (WordInt(off) + 1)..(WordInt(off) + n * size)

\* the four header fields add_symbols is to rewrite
PatchedFields == {"e_shoff", "e_shentsize", "e_shnum", "e_shstrndx"}
Patched == UNION {FieldSpan(elf_ehdr(elff), name) : name \in PatchedFields}

\* the program-header table and the original section-header table of the input
PhdrSpan == TableSpan(elff.ehdr.e_phoff, Len(elff.phdrs), sizeof(elf_phdr(elff)))
ShdrSpan == TableSpan(elff.ehdr.e_shoff, Len(elff.shdrs), sizeof(elf_shdr(elff)))

\* the bytes of a section of a file
SectionBytes(data, shdr) ==
    SubSeq(data, WordInt(shdr.sh_offset) + 1, WordInt(shdr.sh_offset) + WordInt(shdr.sh_size))

\* the file written, read back: its section headers, and the content of the
\* three sections add_symbols appends (symbol entries, symbol names, section
\* names), found from the end of the section-header table
Final ==
    LET out == ELFFile(output) IN
    IF out.exc # "none" THEN [exc |-> out.exc]
    ELSE LET n == Len(out.shdrs)
             symtabhdr == out.shdrs[n - 2]
         IN  [exc |-> "none",
              ehdr |-> out.ehdr,
              shdrs |-> out.shdrs,
              syms |-> ArrayFromBuffer(elf_sym(elff),
                          WordInt(symtabhdr.sh_size) \div WordInt(symtabhdr.sh_entsize),
                          output, symtabhdr.sh_offset),
              strtab |-> SectionBytes(output, out.shdrs[n - 1]),
              shstrtab |-> SectionBytes(output, out.shdrs[n])]

\* the PT_LOAD entries of the input's program-header table
LoadIndexes == {i \in 1..Len(elff.phdrs) : WordInt(elff.phdrs[i].p_type) = PT_LOAD}
GhostCount == Cardinality(LoadIndexes)
\* the index in the new table of the first copied section
Offset == 1 + GhostCount

HasInfoLink(shdr) == (ByteAt(shdr.sh_flags, 1) \div SHF_INFO_LINK) % 2 = 1

\* addr lies in [sh_addr, sh_addr + sh_size)
AddrIn(shdr, addr) ==
    WLeq(shdr.sh_addr, addr) /\ WLess(addr, WAdd(shdr.sh_addr, shdr.sh_size))

\* the string of a table that starts at offset off: it is there when a NUL
\* follows inside the table, and it stops before that NUL
NulsFrom(tab, off) == {i \in (off + 1)..Len(tab) : tab[i] = 0}
Terminated(tab, off) == off < Len(tab) /\ NulsFrom(tab, off) # {}
StrAt(tab, off) ==
    LET nuls == NulsFrom(tab, off)
    IN  SubSeq(tab, off + 1, (CHOOSE i \in nuls : \A j \in nuls : i <= j) - 1)
\* name is one of the strings of the table
Occurs(name, tab) == \E off \in 0..(Len(tab) - 1) : Terminated(tab, off) /\ StrAt(tab, off) = name
IsSuffix(s, t) == Len(s) <= Len(t) /\ SubSeq(t, Len(t) - Len(s) + 1, Len(t)) = s

\* the input symbols that some section of the final list (the null section,
\* the ghosts, the copied sections) of the sections shdrs contains
Kept(shdrs) ==
    {i \in 1..Len(symbols) :
        \E j \in 1..(Len(shdrs) - 3) : AddrIn(shdrs[j], symbols[i].addr)}
\* the rank of i in a set of indexes
Rank(indexes, i) == Cardinality({j \in indexes : j <= i})

IsReport(line) == line.msg = "ignored (bad addr)"
Reports == SelectSeq(stdout, IsReport)

\* add_symbols can look section names up: e_shstrndx is the index of a section
NameTableIndexed ==
    Len(elff.shdrs) = 0 \/ WordInt(elff.ehdr.e_shstrndx) < Len(elff.shdrs)

(***************************************************************************)
(* C1                                                                      *)
(***************************************************************************)
\* C1 as stated: the returned bytes are at least as long as the input, every
\* byte below len(input) that differs from the input lies in e_shoff,
\* e_shentsize, e_shnum or e_shstrndx, and the bytes of the program-header
\* table and of the original section-header table are all unchanged.
C1_FrameAndTables ==
    Returned =>
        /\ Len(newelf.data) >= Len(input)
        /\ {i \in 1..Len(input) : newelf.data[i] # input[i]} \subseteq Patched
        /\ \A i \in PhdrSpan \cup ShdrSpan : newelf.data[i] = input[i]

\* C1, amended: the returned bytes are at least as long as the input and every
\* byte below len(input) that differs from the input lies in e_shoff,
\* e_shentsize, e_shnum or e_shstrndx; the bytes of the two tables are
\* unchanged wherever a table does not lie over one of these four fields.
C1_Frame ==
    Returned =>
        /\ Len(newelf.data) >= Len(input)
        /\ {i \in 1..Len(input) : newelf.data[i] # input[i]} \subseteq Patched
        /\ \A i \in (PhdrSpan \cup ShdrSpan) \ Patched : newelf.data[i] = input[i]

\* a returned file with both tables, clear of the header, and a rewritten field
C1_Witness ==
    /\ pc = "done"
    /\ output = newelf.data
    /\ PhdrSpan # {} /\ ShdrSpan # {}
    /\ (PhdrSpan \cup ShdrSpan) \cap Patched = {}
    /\ \E i \in Patched : output[i] # input[i]

(***************************************************************************)
(* C2                                                                      *)
(***************************************************************************)
\* C2 as stated: with offset = 1 + ghost_count, the section header written at
\* index i + offset has sh_link = L + offset, sh_info = I + offset when the
\* input's sh_flags has SHF_INFO_LINK and I otherwise, and every field other
\* than sh_name, sh_link and sh_info equal to the input's, for every original
\* section i with link L and info I.
C2_Shift ==
    pc = "done" =>
        LET f == Final IN
        /\ f.exc = "none"
        /\ \A i \in 1..Len(elff.shdrs) :
              LET a == elff.shdrs[i]
                  b == f.shdrs[i + Offset]
              IN  /\ WEq(b.sh_link, WAdd(a.sh_link, IntWord(Offset)))
                  /\ WEq(b.sh_info, IF HasInfoLink(a) THEN WAdd(a.sh_info, IntWord(Offset))
                                                     ELSE a.sh_info)
                  /\ \A n \in FieldNames(elf_shdr(elff)) \ {"sh_name", "sh_link", "sh_info"} :
                        b[n] = a[n]

\* C2, amended: the same, the two sums being taken modulo 2^32, the width of
\* the sh_link and sh_info fields.
C2_ShiftMod ==
    pc = "done" =>
        LET f == Final IN
        /\ f.exc = "none"
        /\ \A i \in 1..Len(elff.shdrs) :
              LET a == elff.shdrs[i]
                  b == f.shdrs[i + Offset]
              IN  /\ b.sh_link = CStore(WAdd(a.sh_link, IntWord(Offset)), 4)
                  /\ b.sh_info = IF HasInfoLink(a)
                                 THEN CStore(WAdd(a.sh_info, IntWord(Offset)), 4)
                                 ELSE a.sh_info
                  /\ \A n \in FieldNames(elf_shdr(elff)) \ {"sh_name", "sh_link", "sh_info"} :
                        b[n] = a[n]

\* a written file with ghosts, a copied section whose sh_info is a link and a
\* copied section whose sh_info is none
C2_Witness ==
    /\ pc = "done"
    /\ Offset >= 2
    /\ \E i, j \in 1..Len(elff.shdrs) :
          /\ HasInfoLink(elff.shdrs[i]) /\ ~HasInfoLink(elff.shdrs[j])
          /\ WordInt(elff.shdrs[i].sh_info) = 2
          /\ WordInt(Final.shdrs[i + Offset].sh_info) = 2 + Offset
          /\ WordInt(Final.shdrs[i + Offset].sh_link) = 1 + Offset

(***************************************************************************)
(* C3 and C4, on the images with long tables                               *)
(***************************************************************************)
\* the header of the written file, and the number of sections it was given
WideOut == ReadStruct(elf_ehdr(wide), wide.header, 0)
WideSections == 1 + wide.nload + wide.nshdrs + 3

\* C3: once the file is written, e_shnum reads back as 1 + ghost_count +
\* original_e_shnum + 3, whatever 16-bit e_phnum and e_shnum the input has,
\* and the section-header table it announces lies inside the file.
C3_Count ==
    wide.pc = "done" =>
        /\ WEq(WideOut.e_shnum, IntWord(WideSections))
        /\ WordInt(WideOut.e_shoff) + WideSections * WordInt(WideOut.e_shentsize) <= wide.len

\* C4: once the file is written, e_shoff is the offset of the first byte of
\* the new section-header array, e_shentsize the size of one section-header
\* record, and e_shstrndx the index of the last section of the new table.
C4_Header ==
    wide.pc = "done" =>
        /\ WordInt(WideOut.e_shoff) = wide.len - WideSections * sizeof(elf_shdr(wide))
        /\ WordInt(WideOut.e_shentsize) = sizeof(elf_shdr(wide))
        /\ WEq(WideOut.e_shstrndx, IntWord(WideSections - 1))

(***************************************************************************)
(* C5                                                                      *)
(***************************************************************************)
\* C5: every symbol entry written after the null entry has an st_shndx that
\* is an index of the final section-header table, its st_value lies in
\* [sh_addr, sh_addr + sh_size) of that section, and no section of lower
\* index contains it.
C5_Placed ==
    pc = "done" =>
        LET f == Final IN
        \A k \in 2..Len(f.syms) :
            LET shndx == WordInt(f.syms[k].st_shndx)
            IN  /\ shndx < Len(f.shdrs)
                /\ AddrIn(f.shdrs[shndx + 1], f.syms[k].st_value)
                /\ \A j \in 1..shndx : ~AddrIn(f.shdrs[j], f.syms[k].st_value)

(***************************************************************************)
(* C6                                                                      *)
(***************************************************************************)
\* what C6 and its amendment share: with N symbols of which M lie in no
\* section of the final list, add_symbols, able to name the sections, does
\* not abort; the symbol table written has 1 + (N - M) entries, the first all
\* zero, the others named as the kept symbols in input order; M reports are
\* printed, one per dropped symbol in input order; no entry has the address
\* of a dropped symbol.
C6_Accounting ==
    /\ pc = "failed" /\ elff.exc = "none" => ~NameTableIndexed
    /\ pc = "done" =>
        LET f == Final
            kept == Kept(f.shdrs)
            dropped == (1..Len(symbols)) \ kept
            reports == Reports
        IN
        /\ Len(f.syms) = 1 + (Len(symbols) - Cardinality(dropped))
        /\ f.syms[1] = New(elf_sym(elff))
        /\ \A i \in kept :
              LET name == WordInt(f.syms[1 + Rank(kept, i)].st_name)
              IN  Terminated(f.strtab, name) /\ StrAt(f.strtab, name) = symbols[i].name
        /\ Len(reports) = Cardinality(dropped)
        /\ \A i \in dropped :
              /\ reports[Rank(dropped, i)].name = symbols[i].name
              /\ reports[Rank(dropped, i)].addr = symbols[i].addr
              /\ \A k \in 2..Len(f.syms) : ~WEq(f.syms[k].st_value, symbols[i].addr)

C7_Resolves ==
    pc = "done" =>
        LET f == Final IN
        \A k \in 1..Len(f.shdrs) : Terminated(f.shstrtab, WordInt(f.shdrs[k].sh_name))

\* C7 as stated: every sh_name resolves in the final section-name table, and
\* the string is non-empty for every section but the null section at index 0:
\* the ghosts, every copied original section and the three new sections.
C7_NonEmpty ==
    /\ C7_Resolves
    /\ pc = "done" =>
        LET f == Final IN
        \A k \in 2..Len(f.shdrs) : StrAt(f.shstrtab, WordInt(f.shdrs[k].sh_name)) # << >>

\* C7, amended: every sh_name resolves in the final section-name table; the
\* string is empty for the null section at index 0 and non-empty for the
\* ghosts and the three new sections; a copied original section may have the
\* empty string, as the copy of the input's null section has.
C7_Named ==
    /\ C7_Resolves
    /\ pc = "done" =>
        LET f == Final IN
        /\ StrAt(f.shstrtab, WordInt(f.shdrs[1].sh_name)) = << >>
        /\ \A k \in (2..Offset) \cup ((Len(f.shdrs) - 2)..Len(f.shdrs)) :
              StrAt(f.shstrtab, WordInt(f.shdrs[k].sh_name)) # << >>
        /\ elff.shdrs # << >> /\ WordInt(elff.shdrs[1].sh_name) = 0 =>
              StrAt(f.shstrtab, WordInt(f.shdrs[Offset + 1].sh_name)) = << >>

\* a written file with a ghost and three copied sections, the first unnamed
C7_Witness ==
    /\ pc = "done"
    /\ Offset >= 2
    /\ Len(elff.shdrs) = 3
    /\ StrAt(Final.shstrtab, WordInt(Final.shdrs[Offset + 1].sh_name)) = << >>
    /\ StrAt(Final.shstrtab, WordInt(Final.shdrs[Offset + 3].sh_name)) # << >>

(***************************************************************************)
(* C8                                                                      *)
(***************************************************************************)
DecDigit(c) == c - 48
RECURSIVE DecValue(_)
\* the number a string of decimal digits writes
DecValue(s) == IF s = << >> THEN 0 ELSE 10 * DecValue(SubSeq(s, 1, Len(s) - 1)) + DecDigit(s[Len(s)])
\* the value of a lower-case hexadecimal digit, or -1
HexValue(c) == IF c \in 48..57 THEN c - 48 ELSE IF c \in 97..102 THEN c - 87 ELSE -1
\* the hexadecimal digit of rank m (0 = least significant) of a word
Nibble(w, m) == (ByteAt(w, (m \div 2) + 1) \div (IF m % 2 = 0 THEN 1 ELSE 16)) % 16

\* s reads GHOST<n>_<vaddr>: n in decimal, vaddr as ndigits hexadecimal digits
IsGhostName(s, n, vaddr, ndigits) ==
    LET dec == SubSeq(s, 6, Len(s) - ndigits - 1) IN
    /\ Len(s) >= 5 + 1 + 1 + ndigits
    /\ SubSeq(s, 1, 5) = << 71, 72, 79, 83, 84 >>
    /\ \A i \in 1..Len(dec) : dec[i] \in 48..57
    /\ Len(dec) > 1 => dec[1] # 48
    /\ DecValue(dec) = n
    /\ s[Len(s) - ndigits] = 95
    /\ \A m \in 0..(ndigits - 1) : HexValue(s[Len(s) - m]) = Nibble(vaddr, m)

HasFlag(word, flag) == (ByteAt(word, 1) \div flag) % 2 = 1

\* C8: the written table has one section per PT_LOAD program header and
\* none for the others: for the n-th (from 0) PT_LOAD header, in table order,
\* the section at index n + 1 has type NOBITS, flags ALLOC plus EXECINSTR iff
\* PF_X plus WRITE iff PF_W, the address, file offset and memory size of the
\* segment, and the name GHOST<n>_<address in wordsize/4 hexadecimal digits>;
\* the copied sections start right after them.
C8_Ghosts ==
    pc = "done" =>
        LET f == Final IN
        /\ Len(f.shdrs) = 1 + GhostCount + Len(elff.shdrs) + 3
        /\ \A i \in LoadIndexes :
              LET n == Rank(LoadIndexes, i) - 1
                  p == elff.phdrs[i]
                  g == f.shdrs[n + 2]
              IN  /\ WordInt(g.sh_type) = SHT_NOBITS
                  /\ WordInt(g.sh_flags) =
                        SHF_ALLOC + (IF HasFlag(p.p_flags, PF_X) THEN SHF_EXECINSTR ELSE 0)
                                  + (IF HasFlag(p.p_flags, PF_W) THEN SHF_WRITE ELSE 0)
                  /\ g.sh_addr = p.p_vaddr
                  /\ g.sh_offset = p.p_offset
                  /\ g.sh_size = p.p_memsz
                  /\ Terminated(f.shstrtab, WordInt(g.sh_name))
                  /\ IsGhostName(StrAt(f.shstrtab, WordInt(g.sh_name)), n, p.p_vaddr,
                                 elff.wordsize \div 4)
        /\ \A k \in (GhostCount + 2)..(Len(f.shdrs) - 3) :
              f.shdrs[k].sh_addr = elff.shdrs[k - Offset].sh_addr

\* a written file for a table with a header that is no PT_LOAD before one that
\* is: the only ghost is at index 1 and is numbered 0
C8_Witness ==
    /\ pc = "done"
    /\ Len(elff.phdrs) = 2
    /\ LoadIndexes = {2}
    /\ WordInt(Final.shdrs[2].sh_type) = SHT_NOBITS
    /\ Final.shdrs[2].sh_addr = elff.phdrs[2].p_vaddr
    /\ Len(Final.shdrs) = 1 + 1 + Len(elff.shdrs) + 3

(***************************************************************************)
(* C9                                                                      *)
(***************************************************************************)
\* the name in the written file of the copy of original section i
CopyName(f, i) == StrAt(f.shstrtab, WordInt(f.shdrs[i + Offset].sh_name))

\* C9: add_symbols, given a section-name table, does not abort whatever the
\* sh_name values are, and the copy of every original section whose sh_name
\* is an offset past the end of the content of the original section-name
\* table is named by the placeholder, "corrupt".
C9_Placeholder ==
    /\ pc = "failed" /\ elff.exc = "none" => ~NameTableIndexed
    /\ pc = "done" =>
        LET f == Final
            strtab == elff.shdrs[WordInt(elff.ehdr.e_shstrndx) + 1]
        IN  \A i \in 1..Len(elff.shdrs) :
                WLeq(strtab.sh_size, elff.shdrs[i].sh_name) =>
                    CopyName(f, i) = << 99, 111, 114, 114, 117, 112, 116 >>

(***************************************************************************)
(* C10                                                                     *)
(***************************************************************************)
BadMagic == SubSeq(input, 1, 4) # << 127, 69, 76, 70 >>
BadClass == input[5] \notin {1, 2}
BadOrder == input[6] \notin {1, 2}
\* a table of n records of the given size at offset off ends after the input
Past(off, n, size) == WordInt(off) + WordInt(n) * size > Len(input)
\* the program-header or the section-header table the file header announces
\* extends past the end of the input (the header being one that can be read)
TablePast ==
    LET f == [ei_class |-> input[5], ei_data |-> input[6]]
        ehdr == ReadStruct(elf_ehdr(f), input, 0)
    IN  \/ Past(ehdr.e_phoff, ehdr.e_phnum, sizeof(elf_phdr(f)))
        \/ Past(ehdr.e_shoff, ehdr.e_shnum, sizeof(elf_shdr(f)))
Malformed == BadMagic \/ BadClass \/ BadOrder \/ TablePast

\* C10: on an input without the ELF magic, or with a class byte or an order
\* byte other than 1 and 2, or with a program-header or section-header table
\* that extends past its end, the run ends with an error raised by the load:
\* add_symbols is not entered, nothing is printed and nothing is written.
C10_LoadFails ==
    Malformed /\ pc # "start" =>
        /\ pc = "failed"
        /\ elff.exc = "ValueError"
        /\ newelf = Unset
        /\ stdout = << >>
        /\ output = << >>

\* a failed run on an image whose only fault is a table that ends past it
C10_Witness ==
    /\ pc = "failed"
    /\ ~BadMagic /\ ~BadClass /\ ~BadOrder
    /\ TablePast
    /\ elff.exc = "ValueError"
    /\ output = << >>

(***************************************************************************)
(* C11                                                                     *)
(***************************************************************************)
\* the value of a hexadecimal digit of either case, or -1
AnyHexValue(c) == IF c \in 65..70 THEN c - 55 ELSE HexValue(c)
\* the digits of a token, a prefix 0x or 0X left out
Digits(token) ==
    IF Len(token) >= 2 /\ token[1] = 48 /\ token[2] \in {88, 120}
    THEN SubSeq(token, 3, Len(token)) ELSE token
IsHex(token) ==
    Digits(token) # << >> /\ \A i \in 1..Len(Digits(token)) : AnyHexValue(Digits(token)[i]) >= 0
\* w is the number the token writes in hexadecimal
ReadsAs(w, token) ==
    LET d == Digits(token) IN
    /\ IsHex(token)
    /\ \A m \in 0..(Max(2 * Len(w), Len(d)) - 1) :
           Nibble(w, m) = IF m < Len(d) THEN AnyHexValue(d[Len(d) - m]) ELSE 0

\* a line that is to add no symbol: a comment, or neither 2 nor 3 tokens
Ignored(line) == startswith(line, << 35 >>) \/ Len(split(line)) \notin {2, 3}
Yields(line) == ~Ignored(line)
\* the address, the name and the size a line that is not ignored gives
Given(line) ==
    LET t == split(line)
    IN  [addr |-> t[1], name |-> t[2], size |-> IF Len(t) = 3 THEN t[3] ELSE << 48 >>]

\* C11: get_symbols raises on no line that is a comment or that has neither 2
\* nor 3 tokens (it raises at most on a line whose address or size is not
\* hexadecimal), and as long as it has not raised, its list is, in the order
\* of the lines read, one (name, address, size) for each line of 3 tokens and
\* one (name, address, 0) for each line of 2 tokens that is no comment,
\* address and size read as hexadecimal.
C11_Flat ==
    LET lines == SelectSeq(SubSeq(flat.file, 1, flat.read), Yields) IN
    /\ flat.pc = "raised" =>
           LET line == flat.file[flat.read] IN
           /\ Yields(line)
           /\ ~(IsHex(Given(line).addr) /\ IsHex(Given(line).size))
    /\ flat.pc \in {"reading", "returned"} =>
           /\ Len(flat.symbols) = Len(lines)
           /\ \A i \in 1..Len(lines) :
                  /\ flat.symbols[i].name = Given(lines[i]).name
                  /\ ReadsAs(flat.symbols[i].addr, Given(lines[i]).addr)
                  /\ ReadsAs(flat.symbols[i].size, Given(lines[i]).size)

(***************************************************************************)
(* C12                                                                     *)
(***************************************************************************)
Warned == \E i \in 1..Len(stdout) : stdout[i] = EmptyWarning

\* C12: a run whose image loads and whose sections add_symbols can name does
\* not abort, and when no symbol of the list lies in a section of the final
\* list (the list is empty, or every symbol of it is dropped), the warning
\* that no symbols are being added has been printed and the file written has
\* a symbol table of one entry, all zero.
C12_Warned ==
    /\ pc = "failed" /\ elff.exc = "none" => ~NameTableIndexed
    /\ pc = "done" =>
        LET f == Final IN
        Kept(f.shdrs) = {} =>
            /\ Warned
            /\ Len(f.syms) = 1
            /\ f.syms[1] = New(elf_sym(elff))

(***************************************************************************)
(* C13                                                                     *)
(***************************************************************************)
\* the file region [sh_offset, sh_offset + sh_size) of a section, as offsets
Start(shdr) == WordInt(shdr.sh_offset)
End(shdr) == WordInt(shdr.sh_offset) + WordInt(shdr.sh_size)

\* C13: in the file written, the three last sections are a SYMTAB and two
\* STRTAB sections that lie one after the other without gap or overlap: the
\* symbol table starts at offset len(input) and has sh_size = (number of its
\* entries) x sh_entsize, the symbol string table starts at its end, the
\* section-name table starts at the end of that one; the section-header
\* array starts at the end of the section-name table, which is e_shoff, and
\* ends at the end of the file.  The symbol table's sh_link is the index of
\* the symbol string table, and the st_name of each entry is the offset, in
\* that table, of the NUL-terminated name of the symbol it was made for.
C13_Layout ==
    pc = "done" =>
        LET f == Final IN
        /\ f.exc = "none"
        /\ LET n == Len(f.shdrs)
               symtab == f.shdrs[n - 2]
               strtab == f.shdrs[n - 1]
               shstrtab == f.shdrs[n]
               kept == Kept(f.shdrs)
           IN
           /\ WordInt(symtab.sh_type) = SHT_SYMTAB
           /\ WordInt(strtab.sh_type) = SHT_STRTAB
           /\ WordInt(shstrtab.sh_type) = SHT_STRTAB
           /\ Start(symtab) = Len(input)
           /\ WordInt(symtab.sh_entsize) = sizeof(elf_sym(elff))
           /\ WordInt(symtab.sh_size) = (1 + Cardinality(kept)) * sizeof(elf_sym(elff))
           /\ Len(f.syms) = 1 + Cardinality(kept)
           /\ Start(strtab) = End(symtab)
           /\ Start(strtab) < End(strtab)
           /\ Start(shstrtab) = End(strtab)
           /\ Start(shstrtab) < End(shstrtab)
           /\ WordInt(f.ehdr.e_shoff) = End(shstrtab)
           /\ WordInt(f.ehdr.e_shentsize) = sizeof(elf_shdr(elff))
           /\ End(shstrtab) + n * sizeof(elf_shdr(elff)) = Len(output)
           /\ WordInt(symtab.sh_link) = (n - 1) - 1
           /\ \A i \in kept :
                  LET name == WordInt(f.syms[1 + Rank(kept, i)].st_name) IN
                  /\ name < Len(f.strtab)
                  /\ SubSeq(f.strtab, name + 1, name + Len(symbols[i].name) + 1)
                         = symbols[i].name \o NUL

\* a written file with two symbol entries after the null one, appended to an
\* image that has section headers of its own
C13_Witness ==
    /\ pc = "done"
    /\ Len(elff.shdrs) >= 2
    /\ Len(Final.syms) = 3
    /\ WordInt(Final.syms[3].st_name) > 1

(***************************************************************************)
(* C14                                                                     *)
(***************************************************************************)
\* C14: an application of add_symbols to what an earlier application
\* produced completes; and with the section headers of the image it is given
\* (those its file header announces, the .wsymtab, .strtab and .shstrtab of
\* the earlier applications among them) numbered from 0, the header of index
\* i reappears in the file written at index i + 1 + ghost_count, under the
\* name it had, its fields other than sh_name, sh_link and sh_info the same,
\* and with sh_link = L + 1 + ghost_count when its sh_link L was the index of
\* a section, so that it designates the copy of that section; in particular
\* the copy of each earlier symbol table links to the copy of its own string
\* table.
C14_Again ==
    round >= 1 =>
        /\ pc # "failed"
        /\ pc = "done" =>
            LET f == Final
                given == ELFFile(elff.data)
            IN
            /\ f.exc = "none"
            /\ given.exc = "none"
            /\ Len(f.shdrs) = Offset + Len(given.shdrs) + 3
            /\ \A i \in 1..Len(given.shdrs) :
                  LET a == given.shdrs[i]
                      b == f.shdrs[i + Offset]
                      name == shstr(given, a.sh_name)
                  IN  /\ name.exc = "none"
                      /\ Terminated(f.shstrtab, WordInt(b.sh_name))
                      /\ StrAt(f.shstrtab, WordInt(b.sh_name)) \o NUL = name.val
                      /\ \A n \in FieldNames(elf_shdr(elff)) \ {"sh_name", "sh_link", "sh_info"} :
                            b[n] = a[n]
                      /\ WordInt(a.sh_link) < Len(given.shdrs) =>
                            WordInt(b.sh_link) = WordInt(a.sh_link) + Offset
                      /\ WordInt(a.sh_type) = SHT_SYMTAB /\ WordInt(a.sh_link) = i =>
                            /\ WordInt(b.sh_link) = i + Offset
                            /\ f.shdrs[i + 1 + Offset].sh_offset = given.shdrs[i + 1].sh_offset

=============================================================================
